---- MODULE Spec2Model ----
(***************************************************************************)
(* A model of hccspart.py: the FileCore boot block and RISC iX partition   *)
(* table codecs, the image scanner find_partitions and the layout planner  *)
(* and commit step of main.                                                *)
(*                                                                         *)
(* Representation.  A bytes object is a sequence of integers 0..255.  A    *)
(* 32-bit word of the defect list is the pair <<lo, hi>> of its 16-bit     *)
(* halves (value = lo + 65536 * hi), so that the rotate and xor of the     *)
(* defect checksum keep their full 32-bit width.  An Optional value is     *)
(* None (the empty tuple) or <<v>>.  A call that may raise returns a       *)
(* record [exc, val]: exc = "none" and the value, or the exception's name. *)
(***************************************************************************)
EXTENDS Integers, Sequences, FiniteSets, TLC

VARIABLES
    bbIn, bbBytes, bbOut, bbPc,     \* boot block round trip: object, sector, parsed, position
    ptIn, ptBytes, ptOut, ptPc,     \* partition table round trip
    image,                          \* the image file: [size, regions]
    args,                           \* the parsed command line
    pc,                             \* position of main
    offset, partitions,             \* locals of find_partitions
    plan,                           \* locals of main after planning
    status,                         \* exit status / uncaught exception of the run
    writes,                         \* the image.write calls made so far, in order
    rescan                          \* find_partitions run again on the written image

vars == <<bbIn, bbBytes, bbOut, bbPc, ptIn, ptBytes, ptOut, ptPc,
          image, args, pc, offset, partitions, plan, status, writes, rescan>>

----------------------------------------------------------------------------
(* Values and helpers standing for Python built-ins.                        *)

None == <<>>
Some(v) == <<v>>

Min(a, b) == IF a < b THEN a ELSE b
Max(a, b) == IF a > b THEN a ELSE b

Zeros(n) == [i \in 1..n |-> 0]

\* data[a:b] of Python, 0-based, clamped to the data (a >= 0, b >= 0)
Slice(data, a, b) == SubSeq(data, a + 1, Min(b, Len(data)))

RECURSIVE Pow2(_)
Pow2(n) == IF n = 0 THEN 1 ELSE 2 * Pow2(n - 1)

\* int(math.log2(x)) for x >= 1
RECURSIVE Log2(_)
Log2(x) == IF x <= 1 THEN 0 ELSE 1 + Log2(x \div 2)

\* a ^ b on non-negative integers
RECURSIVE BitXor(_, _)
BitXor(a, b) ==
    IF a = 0 THEN b
    ELSE IF b = 0 THEN a
    ELSE ((a + b) % 2) + 2 * BitXor(a \div 2, b \div 2)

\* struct '<H' and '<I' (little-endian); values are below 2^31 in this model
PackU16(n) == <<n % 256, n \div 256>>
PackU32(n) == <<n % 256, (n \div 256) % 256, (n \div 65536) % 256, n \div 16777216>>
UnpackU16(d) == d[1] + 256 * d[2]
UnpackU32(d) == d[1] + 256 * d[2] + 65536 * d[3] + 16777216 * d[4]

\* struct '<I' as a 32-bit word <<lo, hi>>
UnpackWord(d) == <<d[1] + 256 * d[2], d[3] + 256 * d[4]>>
PackWord(w) == PackU16(w[1]) \o PackU16(w[2])

\* struct 'Ns': truncate to n bytes, pad with NUL to n bytes
PackStr(n, s) == IF Len(s) >= n THEN SubSeq(s, 1, n) ELSE s \o Zeros(n - Len(s))

\* str.encode('ascii') / bytes.decode('ascii') succeed on 7-bit characters only
IsAscii(s) == \A i \in 1..Len(s) : s[i] < 128

\* s.strip('\x00'): drop leading and trailing NULs
RECURSIVE LStrip(_)
LStrip(s) == IF s # <<>> /\ Head(s) = 0 THEN LStrip(Tail(s)) ELSE s
RECURSIVE RStrip(_)
RStrip(s) == IF s # <<>> /\ s[Len(s)] = 0 THEN RStrip(SubSeq(s, 1, Len(s) - 1)) ELSE s
Strip(s) == RStrip(LStrip(s))

----------------------------------------------------------------------------
(* Checksum primitives (lines 21-47).                                       *)

\* one pass of the loop body: sum += b; if sum > 255: sum -= 255
sum8_step(sum, b) == IF sum + b > 255 THEN sum + b - 255 ELSE sum + b

\* the loop over data[lo..hi], in order, from the running sum (the range is
\* halved only to keep the evaluation shallow: the bytes are folded left to
\* right, sum8_rest going on from the sum the first half has reached)
RECURSIVE sum8_loop(_, _, _, _)
sum8_rest(data, lo, hi, sum) == IF sum >= 0 THEN sum8_loop(data, lo, hi, sum) ELSE sum
sum8_loop(data, lo, hi, sum) ==
    IF lo > hi THEN sum
    ELSE IF lo = hi THEN sum8_step(sum, data[lo])
    ELSE sum8_rest(data, (lo + hi) \div 2 + 1, hi,
                   sum8_loop(data, lo, (lo + hi) \div 2, sum))

sum8(data) == sum8_loop(data, 1, Len(data), 0)

\* (2**32-1) & (n >> r | n << (32-r)) for 0 < r < 16, on the halves of n
ror(n, r) ==
    LET lo == n[1]
        hi == n[2]
        p  == Pow2(r)
        q  == Pow2(16 - r)
    IN  << (hi % p) * q + (lo \div p), (lo % p) * q + (hi \div p) >>

XorWord(a, b) == <<BitXor(a[1], b[1]), BitXor(a[2], b[2])>>
Shr16(w) == <<w[2], 0>>
Shr8(w) == <<(w[1] \div 256) + (w[2] % 256) * 256, w[2] \div 256>>

\* the loop over defects[lo..hi], in order, from the running checksum
RECURSIVE defect_loop(_, _, _, _)
defect_rest(defects, lo, hi, checksum) ==
    IF checksum[1] >= 0 THEN defect_loop(defects, lo, hi, checksum) ELSE checksum
defect_loop(defects, lo, hi, checksum) ==
    IF lo > hi THEN checksum
    ELSE IF lo = hi THEN XorWord(ror(checksum, 13), defects[lo])
    ELSE defect_rest(defects, (lo + hi) \div 2 + 1, hi,
                     defect_loop(defects, lo, (lo + hi) \div 2, checksum))

\* checksum ^= checksum >> 16; checksum ^= checksum >> 8; checksum &= 0xff
defect_fold(c) == XorWord(XorWord(c, Shr16(c)), Shr8(XorWord(c, Shr16(c))))[1] % 256

defect_checksum(defects) ==
    defect_fold(defect_loop(defects, 1, Len(defects), <<0, 0>>))

----------------------------------------------------------------------------
(* Hardware parameter block (lines 59-115).                                 *)

Raised(e, m) == [exc |-> e, val |-> None, msg |-> m]
Returned(v) == [exc |-> "none", val |-> v, msg |-> ""]

AWHwParams_magic == <<65, 110, 100, 121>>    \* b'Andy'

\* struct.calcsize('<4s12s')
AWHwParams_size == 16

\* data[-struct.calcsize(cls.format):]
HWParams_get_data(data) ==
    IF Len(data) > AWHwParams_size
    THEN SubSeq(data, Len(data) - AWHwParams_size + 1, Len(data))
    ELSE data

\* struct.unpack raises struct.error on a buffer that is not 16 bytes; on a wrong
\* magic the message's format spec ':08x' is applied to a bytes object, which
\* raises TypeError before DiscImageException can be constructed.
AWHwParams_from_bytes(data) ==
    LET d == HWParams_get_data(data)
    IN  IF Len(d) # AWHwParams_size
        THEN Raised("struct.error", "unpack requires a buffer of 16 bytes")
        ELSE IF SubSeq(d, 1, 4) # AWHwParams_magic
        THEN Raised("TypeError", "unsupported format string passed to bytes.__format__")
        ELSE Returned([params |-> SubSeq(d, 5, 16)])

AWHwParams_serialise(h) == AWHwParams_magic \o PackStr(12, h.params)

----------------------------------------------------------------------------
(* Disc record (lines 118-152).  format '<BBBBBBBBBBHIIH10sI24s': 60 bytes.  *)

DiscRecord_from_bytes(data) ==
    [ sectorsize |-> Pow2(data[1]),
      spt        |-> data[2],
      heads      |-> data[3],
      density    |-> data[4],
      idlen      |-> data[5],
      bpmb       |-> Pow2(data[6]),
      skew       |-> data[7],
      bootopt    |-> data[8],
      lowsector  |-> data[9],
      nzones     |-> data[10],
      zonespare  |-> UnpackU16(SubSeq(data, 11, 12)),
      root       |-> UnpackU32(SubSeq(data, 13, 16)),
      size       |-> UnpackU32(SubSeq(data, 17, 20)),
      cycle      |-> UnpackU16(SubSeq(data, 21, 22)),
      name_raw   |-> SubSeq(data, 23, 32),
      filetype   |-> UnpackU32(SubSeq(data, 33, 36)),
      reserved   |-> SubSeq(data, 37, 60) ]

\* the name property: name_raw.decode('ascii').strip('\x00')
DiscRecord_name(r) == Strip(r.name_raw)

DiscRecord_serialise(r) ==
    IF ~IsAscii(r.name_raw)
    THEN Raised("UnicodeDecodeError", "'ascii' codec can't decode byte")
    ELSE Returned(
           << Log2(r.sectorsize), r.spt, r.heads, r.density, r.idlen,
              Log2(r.bpmb), r.skew, r.bootopt, r.lowsector, r.nzones >>
           \o PackU16(r.zonespare) \o PackU32(r.root) \o PackU32(r.size)
           \o PackU16(r.cycle) \o PackStr(10, DiscRecord_name(r))
           \o PackU32(r.filetype) \o PackStr(24, r.reserved))

----------------------------------------------------------------------------
(* Boot block (lines 155-227).                                              *)

\* word & 0xffffff00 == 0x20000000
IsEndMarker(word) == word[2] = 8192 /\ word[1] < 256

\* One pass of the for loop of from_bytes, over one word of the sector.
\* st.left is TRUE once the loop was left by break or raise.
scan_word(word, st) ==
    IF IsEndMarker(word)
    THEN [ st EXCEPT !.left = TRUE,
                     !.hwparams_start = @ + 4,
                     !.exc = IF word[1] % 256 = defect_checksum(st.defects)
                             THEN "none" ELSE "DiscImageException" ]
    ELSE [ st EXCEPT !.hwparams_start = @ + 4,
                     !.defects = Append(@, word) ]

\* the loop over words lo..hi (from 1), in order (halved only to keep the
\* evaluation shallow)
RECURSIVE scan_loop(_, _, _, _)
scan_loop(data, lo, hi, st) ==
    IF lo > hi \/ st.left THEN st
    ELSE IF lo = hi THEN scan_word(UnpackWord(SubSeq(data, 4 * lo - 3, 4 * lo)), st)
    ELSE scan_loop(data, (lo + hi) \div 2 + 1, hi,
                   scan_loop(data, lo, (lo + hi) \div 2, st))

scan_defects(data) ==
    scan_loop(data, 1, Len(data) \div 4,
              [left |-> FALSE, exc |-> "none", defects |-> <<>>, hwparams_start |-> 0])

\* if riscix_flag: struct.unpack('<H', data[0x1fd:0x1ff])[0] else None
riscix_descriptor_from_bytes(data) ==
    IF data[509] # 0 THEN Some(UnpackU16(Slice(data, 509, 511))) ELSE None

\* lines 181-198: the rest of from_bytes once the hardware parameters are read
BootBlock_from_hwparams(data, defects, hw) ==
    IF hw.exc # "none" THEN hw
    ELSE Returned([ defects         |-> defects,
                    hwparams        |-> hw.val,
                    disc_record     |-> DiscRecord_from_bytes(Slice(data, 448, 508)),
                    riscix_cylinder |-> riscix_descriptor_from_bytes(data) ])

\* lines 176-181: the rest of from_bytes once the defect list is read
BootBlock_from_defects(data, sc) ==
    IF sc.exc # "none"
    THEN Raised("DiscImageException", "Bad defect list checksum")
    ELSE IF sc.hwparams_start > 448
    THEN Raised("DiscImageException", "Invalid defect list")
    ELSE BootBlock_from_hwparams(data, sc.defects,
                                 AWHwParams_from_bytes(Slice(data, sc.hwparams_start, 448)))

BootBlock_from_bytes(data) ==
    IF sum8(SubSeq(data, 1, Len(data) - 1)) # data[512]
    THEN Raised("DiscImageException", "Bad boot block checksum")
    ELSE BootBlock_from_defects(data, scan_defects(data))

\* struct.pack('<' + 'I' * n, *ws)
PackWords(ws) == [k \in 1..(4 * Len(ws)) |-> PackWord(ws[(k + 3) \div 4])[((k - 1) % 4) + 1]]

\* struct.pack('<BH', 1, cylinder) or bytes([0, 0, 0])
riscix_descriptor_serialise(cyl) ==
    IF cyl # None THEN <<1>> \o PackU16(cyl[1]) ELSE <<0, 0, 0>>

\* lines 224-227: bootblock + struct.pack('B', sum8(bootblock))
with_checksum(bootblock) == Append(bootblock, sum8(bootblock))

\* lines 213-227: the rest of serialise once its parts are packed
BootBlock_assemble(defectlist, hwparams, disc_record, cyl) ==
    IF 448 - Len(defectlist) - Len(hwparams) < 0
    THEN Raised("ValueError", "negative count")
    ELSE IF disc_record.exc # "none" THEN disc_record
    ELSE IF cyl # None /\ cyl[1] \notin 0..65535
    THEN Raised("struct.error", "ushort format requires 0 <= number <= 65535")
    ELSE Returned(with_checksum(
             defectlist \o Zeros(448 - Len(defectlist) - Len(hwparams)) \o hwparams
             \o disc_record.val \o riscix_descriptor_serialise(cyl)))

BootBlock_serialise(b) ==
    BootBlock_assemble(
        PackWords(Append(b.defects, <<defect_checksum(b.defects), 8192>>)),
        AWHwParams_serialise(b.hwparams),
        DiscRecord_serialise(b.disc_record),
        b.riscix_cylinder)

----------------------------------------------------------------------------
(* RISC iX partition table (lines 230-299).                                 *)

\* 'Root', 'Swap', 'usr' as character codes
NameRoot == <<82, 111, 111, 116>>
NameSwap == <<83, 119, 97, 112>>
NameUsr  == <<117, 115, 114>>

\* RiscixPartition(name, start_cylinder, num_cylinders)
RiscixPartitionOf(name, start, count) ==
    [name |-> name, start_cylinder |-> start, num_cylinders |-> count]

\* RiscixPartition.from_bytes on one 28-byte entry ('<3I16s'); None when the
\* start cylinder or the cylinder count is zero.
RiscixPartition_from_bytes(data) ==
    LET start_cylinder == UnpackU32(SubSeq(data, 1, 4))
        num_cylinders  == UnpackU32(SubSeq(data, 5, 8))
        name           == Strip(SubSeq(data, 13, 28))
    IN  IF start_cylinder = 0 \/ num_cylinders = 0
        THEN Returned(None)
        ELSE IF ~IsAscii(name)
        THEN Raised("UnicodeDecodeError", "'ascii' codec can't decode byte")
        ELSE Returned(Some([ name |-> name, start_cylinder |-> start_cylinder,
                             num_cylinders |-> num_cylinders ]))

RiscixPartition_serialise(p) ==
    IF p.start_cylinder < 0 \/ p.num_cylinders < 0
    THEN Raised("struct.error", "argument out of range")
    ELSE IF ~IsAscii(p.name)
    THEN Raised("UnicodeEncodeError", "'ascii' codec can't encode character")
    ELSE Returned(PackU32(p.start_cylinder) \o PackU32(p.num_cylinders) \o PackU32(1)
                  \o PackStr(16, p.name))

ptable_magic == 1885434484     \* 0x70617274, 'part'
bbtable_magic == 1113678881    \* 0x42616421, 'bad!'

\* The loop of from_bytes over the 28-byte chunks from number i on.
RECURSIVE table_entries(_, _, _)
table_entry(chunks, i, parts, part) ==
    IF part.exc # "none" THEN part
    ELSE IF part.val = None THEN Returned(parts)
    ELSE table_entries(chunks, i + 1, Append(parts, part.val[1]))
table_entries(chunks, i, parts) ==
    IF i > Len(chunks) \div 28 THEN Returned(parts)
    ELSE table_entry(chunks, i, parts,
                     RiscixPartition_from_bytes(SubSeq(chunks, 28 * i - 27, 28 * i)))

table_chunks(chunks) ==
    IF Len(chunks) % 28 # 0
    THEN Raised("struct.error", "iterative unpacking requires a buffer of a multiple of 28 bytes")
    ELSE table_entries(chunks, 1, <<>>)

RiscixPartitionTable_from_bytes(data) ==
    IF Len(data) < 4
    THEN Raised("struct.error", "unpack requires a buffer of 4 bytes")
    ELSE IF SubSeq(data, 1, 4) # PackU32(ptable_magic)
    THEN Raised("DiscImageException", "Invalid magic number in RISC iX partition table")
    ELSE table_chunks(Slice(data, 4, 452))

\* the packed entries of parts i.. in order, or the first exception
RECURSIVE table_pack(_, _, _)
table_packed(parts, i, packed, e) ==
    IF e.exc # "none" THEN e ELSE table_pack(parts, i + 1, packed \o e.val)
table_pack(parts, i, packed) ==
    IF i > Len(parts) THEN Returned(packed)
    ELSE table_packed(parts, i, packed, RiscixPartition_serialise(parts[i]))

\* lines 292-299 once the entries are packed
table_sectors(entries) ==
    IF entries.exc # "none" THEN entries
    ELSE Returned(PackU32(ptable_magic) \o entries.val
                  \o Zeros(Max(0, 508 - Len(entries.val)))
                  \o PackU32(bbtable_magic) \o Zeros(508))

RiscixPartitionTable_serialise(parts) == table_sectors(table_pack(parts, 1, <<>>))

----------------------------------------------------------------------------
(* The image file.  image.size is the file's length; image.regions are the  *)
(* stretches of bytes that were set, later ones over earlier ones; every    *)
(* other byte is zero.                                                      *)

ImageByte(img, p) ==
    LET hits == { k \in 1..Len(img.regions) :
                    /\ img.regions[k].off <= p
                    /\ p < img.regions[k].off + Len(img.regions[k].data) }
    IN  IF hits = {} THEN 0
        ELSE LET k == CHOOSE x \in hits : \A y \in hits : y <= x
             IN  img.regions[k].data[p - img.regions[k].off + 1]

\* image.seek(pos, os.SEEK_SET): a seek past the end of a file succeeds and
\* returns the position asked for
image_seek(img, pos) == pos

\* image.seek(pos); image.read(n): the bytes from pos, as many as the file holds
image_read(img, pos, n) ==
    [i \in 1..Max(0, Min(n, img.size - pos)) |-> ImageByte(img, pos + i - 1)]

\* image.seek(pos); image.write(data) on a file opened 'r+b'
image_write(img, pos, data) ==
    [ size    |-> Max(img.size, pos + Len(data)),
      regions |-> Append(img.regions, [off |-> pos, data |-> data]) ]

----------------------------------------------------------------------------
(* find_partitions (lines 306-346).                                         *)

\* the truth value of an Optional[int] in "if x:": None and 0 are both false
Truthy(opt) == opt # None /\ opt[1] # 0

cyl_size_of(discrec) == discrec.sectorsize * discrec.spt * discrec.heads

\* image.seek(offset + size) != offset + size  is the failure of this check
extent_ok(img, off, bootblock) ==
    image_seek(img, off + bootblock.disc_record.size) = off + bootblock.disc_record.size

\* lines 336-344: the table the pointer links, and the partition appended
find_partitions_link(off, bootblock, linked, pt) ==
    IF linked /\ pt.exc # "none"
    THEN [kind |-> "raise", why |-> "RiscixPartitionTable.from_bytes", exc |-> pt.exc]
    ELSE [kind |-> "append", why |-> "", exc |-> "none",
          next |-> off + bootblock.disc_record.size,
          partition |-> [offset |-> off, bootblock |-> bootblock,
                         riscix_pt |-> IF linked THEN Some(pt.val) ELSE None]]

\* lines 320-341: what the loop does with the result of BootBlock.from_bytes
find_partitions_parsed(img, off, bb) ==
    IF bb.exc = "DiscImageException"
    THEN [kind |-> "break", why |-> bb.msg, exc |-> "none"]
    ELSE IF bb.exc # "none"
    THEN [kind |-> "raise", why |-> "BootBlock.from_bytes", exc |-> bb.exc]
    ELSE IF ~extent_ok(img, off, bb.val)
    THEN [kind |-> "break", why |-> "extent", exc |-> "none"]
    ELSE IF Truthy(bb.val.riscix_cylinder)
    THEN find_partitions_link(off, bb.val, TRUE,
             RiscixPartitionTable_from_bytes(
                 image_read(img, off + (bb.val.riscix_cylinder[1] \div 2)
                                       * cyl_size_of(bb.val.disc_record), 1024)))
    ELSE find_partitions_link(off, bb.val, FALSE, Returned(None))

\* lines 313-322: what the loop does with the 512 bytes read
find_partitions_read(img, off, data) ==
    IF Len(data) # 512
    THEN [kind |-> "break", why |-> "EOF", exc |-> "none"]
    ELSE find_partitions_parsed(img, off, BootBlock_from_bytes(data))

\* One pass of the while loop at candidate offset off.  kind is "break" (the
\* loop ends and the partitions found are returned), "raise" (an exception
\* leaves find_partitions) or "append" (a partition is appended and the loop
\* goes on at next).
find_partitions_body(img, off) ==
    find_partitions_read(img, off, image_read(img, off + 3072, 512))

----------------------------------------------------------------------------
(* main: planning (lines 400-528).  Sizes of the command line are in MB.    *)
(* The quotients a / b that the code takes in floating point and then       *)
(* floors or ceils are exact here: every operand is far below 2^53.         *)

MiB == 1048576

FloorDiv(a, b) == a \div b
CeilDiv(a, b) == -((-a) \div b)

Exit(code, reason) == [code |-> code, exc |-> "none", reason |-> reason]
\* an uncaught exception ends the interpreter with exit status 1
Uncaught(exc, where) == [code |-> 1, exc |-> exc, reason |-> where]

\* sum(math.ceil(int(p[1])*1024*1024/cyl_size) for p in extra_partitions)
RECURSIVE extra_cyls_of(_, _)
extra_cyls_of(extras, cyl_size) ==
    IF extras = <<>> THEN 0
    ELSE CeilDiv(Head(extras).size * MiB, cyl_size) + extra_cyls_of(Tail(extras), cyl_size)

\* a faulty sizing that forgets the cylinder of the table itself
root_cyls_default_no_table(total_cyls, swap_cyls, extra_cyls, max_root_bytes, cyl_size) ==
    Min(total_cyls - swap_cyls - extra_cyls, FloorDiv(max_root_bytes, cyl_size))

\* lines 474-475: the root size when none is asked for
root_cyls_default(total_cyls, swap_cyls, extra_cyls, max_root_bytes, cyl_size) ==
    Min(total_cyls - swap_cyls - extra_cyls - 1, FloorDiv(max_root_bytes, cyl_size))

\* lines 489-495: the entries of the extra partitions from cylinder next_cyl on
RECURSIVE extra_entries(_, _, _)
extra_entries(extras, next_cyl, cyl_size) ==
    IF extras = <<>> THEN <<>>
    ELSE LET length_cyls == FloorDiv(Head(extras).size * MiB, cyl_size)
         IN  << RiscixPartitionOf(Head(extras).name, next_cyl * 2, length_cyls * 2) >>
             \o extra_entries(Tail(extras), next_cyl + length_cyls, cyl_size)

RECURSIVE extra_length(_, _)
extra_length(extras, cyl_size) ==
    IF extras = <<>> THEN 0
    ELSE FloorDiv(Head(extras).size * MiB, cyl_size) + extra_length(Tail(extras), cyl_size)

\* a faulty validation that lets a root below 64 MB through
plan_check_no_minimum(p) ==
    IF p.unused < 0 THEN "DoesNotFit"
    ELSE IF p.riscix_root_cyls * p.cyl_size + p.discrec_size > 512 * MiB
    THEN "RootExceeds512MB"
    ELSE "ok"

\* lines 509-528: the three validations, in the code's order
plan_check(p) ==
    IF p.unused < 0 THEN "DoesNotFit"
    ELSE IF p.riscix_root_cyls * p.cyl_size < 64 * MiB THEN "RootTooSmall"
    ELSE IF p.riscix_root_cyls * p.cyl_size + p.discrec_size > 512 * MiB
    THEN "RootExceeds512MB"
    ELSE "ok"

\* lines 439-500 for the first partition, once the reuse decision is taken
main_layout(partition, new_riscix, image_size, a) ==
    LET discrec          == partition.bootblock.disc_record
        max_root_bytes   == 512 * MiB - discrec.size
        cyl_size         == cyl_size_of(discrec)
        riscix_start_cyl == IF new_riscix
                            THEN CeilDiv(discrec.size, cyl_size)
                            ELSE partition.bootblock.riscix_cylinder[1] \div 2
        bootblock        == IF new_riscix
                            THEN [partition.bootblock EXCEPT
                                    !.riscix_cylinder = Some(riscix_start_cyl * 2)]
                            ELSE partition.bootblock
        total_cyls       == FloorDiv(image_size, cyl_size) - riscix_start_cyl
        swap_cyls        == FloorDiv(a.swap_size * MiB, cyl_size)
        extra_cyls       == extra_cyls_of(a.extra_partitions, cyl_size)
        root_start_cyl   == riscix_start_cyl + 1
        root_cyls        == IF a.root_size = None
                            THEN root_cyls_default(total_cyls, swap_cyls, extra_cyls,
                                                   max_root_bytes, cyl_size)
                            ELSE FloorDiv(a.root_size[1] * MiB, cyl_size)
        swap_start_cyl   == root_start_cyl + root_cyls
        first_extra_cyl  == swap_start_cyl + swap_cyls
        next_cyl         == first_extra_cyl + extra_length(a.extra_partitions, cyl_size)
        end_offset       == next_cyl * cyl_size
    IN  [ new_riscix        |-> new_riscix,
          offset            |-> partition.offset,
          discrec_size      |-> discrec.size,
          bootblock         |-> bootblock,
          max_root_bytes    |-> max_root_bytes,
          cyl_size          |-> cyl_size,
          riscix_start_cyl  |-> riscix_start_cyl,
          riscix_total_cyls |-> total_cyls,
          riscix_swap_cyls  |-> swap_cyls,
          extra_cyls        |-> extra_cyls,
          riscix_root_cyls  |-> root_cyls,
          riscix_swap_start_cyl |-> swap_start_cyl,
          new_riscix_pt     |-> << RiscixPartitionOf(NameRoot, (riscix_start_cyl + 1) * 2,
                                                     root_cyls * 2),
                                   RiscixPartitionOf(NameSwap, swap_start_cyl * 2,
                                                     swap_cyls * 2) >>
                                \o extra_entries(a.extra_partitions, first_extra_cyl, cyl_size),
          next_cyl          |-> next_cyl,
          new_bootblock_data |-> None,
          new_riscix_pt_data |-> None,
          unused            |-> image_size - (partition.offset + end_offset) ]

\* lines 400-528: what main does with the partitions found, up to the prompt.
\* Returns the exit status (None when main goes on) and the plan (None when
\* none was computed).
main_plan(parts, image_size, a) ==
    IF \E i \in 1..Len(parts) : ~IsAscii(parts[i].bootblock.disc_record.name_raw)
    THEN [status |-> Uncaught("UnicodeDecodeError", "print_riscos_partitions"), plan |-> None]
    ELSE IF Len(parts) = 0
    THEN [status |-> Exit(1, "NoPartitions"), plan |-> None]
    ELSE
    LET partition  == parts[1]
        discrec    == partition.bootblock.disc_record
        new_riscix == ~Truthy(partition.bootblock.riscix_cylinder)
        unused_space == image_size - partition.offset - discrec.size
    IN  IF new_riscix /\ ~(Len(parts) = 1 /\ unused_space > 100 * MiB) /\ Len(parts) >= 2
        THEN \* line 426 reads p.disc_record of an AWPartition, which has no such field
             [status |-> Uncaught("AttributeError", "to_erase"), plan |-> None]
        ELSE IF new_riscix /\ ~(Len(parts) = 1 /\ unused_space > 100 * MiB)
        THEN [status |-> Exit(1, "InsufficientSpace"), plan |-> None]
        ELSE IF cyl_size_of(discrec) = 0
        THEN [status |-> Uncaught("ZeroDivisionError", "image_cyls"), plan |-> None]
        ELSE LET p == main_layout(partition, new_riscix, image_size, a)
                 v == plan_check(p)
             IN  [status |-> IF v = "ok" THEN None ELSE Exit(1, v), plan |-> p]

----------------------------------------------------------------------------
(* main: the prompt and the commit (lines 530-554).                         *)

\* a faulty commit that writes the table before the boot block that points to it
commit_order_table_first == <<"write_table", "write_bootblock", "invalidate">>

\* the writes of lines 542-554, in the order the code makes them
commit_order == <<"write_bootblock", "invalidate", "write_table">>

commit_next(at) ==
    LET i == CHOOSE k \in 1..Len(commit_order) : commit_order[k] = at
    IN  IF i = Len(commit_order) THEN "done" ELSE commit_order[i + 1]

----------------------------------------------------------------------------
(* Boot block round trip: serialise, then from_bytes.                       *)

\* longest defect list drawn for the round trip
MaxDefects == 2

\* defect words: small, wide, all ones, and one that reads as an end marker
DefectWords == { <<1, 0>>, <<22136, 4660>>, <<65535, 65535>>, <<5, 8192>> }

RECURSIVE SeqsUpTo(_, _)
SeqsUpTo(S, n) ==
    IF n = 0 THEN { <<>> }
    ELSE LET shorter == SeqsUpTo(S, n - 1)
         IN  shorter \cup { Append(q, x) : q \in { r \in shorter : Len(r) = n - 1 }, x \in S }

\* 107 defects fill the sector up to the hardware parameters; 108 do not fit
DefectLists ==
    SeqsUpTo(DefectWords, MaxDefects)
    \cup { [i \in 1..107 |-> <<i, 0>>], [i \in 1..108 |-> <<i, 0>>] }

HwParamsSet == { [params |-> Zeros(12)], [params |-> [i \in 1..12 |-> 16 * i]] }

\* volume names as the 10 raw bytes of the record: "IDEDisc4", "HardDisc10",
\* empty, one with a leading NUL, one with a byte that is not ASCII
VolumeNames ==
    { <<73, 68, 69, 68, 105, 115, 99, 52, 0, 0>>,
      <<72, 97, 114, 100, 68, 105, 115, 99, 49, 48>>,
      Zeros(10),
      <<0, 65, 66, 0, 0, 0, 0, 0, 0, 0>>,
      <<65, 200, 0, 0, 0, 0, 0, 0, 0, 0>> }

DiscRecordOf(log2ss, spt, heads, size, name) ==
    [ sectorsize |-> Pow2(log2ss), spt |-> spt, heads |-> heads, density |-> 0,
      idlen |-> 15, bpmb |-> 1024, skew |-> 0, bootopt |-> 2, lowsector |-> 1,
      nzones |-> 26, zonespare |-> 4660, root |-> 515, size |-> size,
      cycle |-> 43981, name_raw |-> name, filetype |-> 0,
      reserved |-> Zeros(24) ]

DiscRecords ==
    { DiscRecordOf(9, 63, 16, 100000000, n) : n \in VolumeNames }
    \cup { DiscRecordOf(8, 17, 4, 0, <<82, 79, 0, 0, 0, 0, 0, 0, 0, 0>>) }

Cylinders == { None, Some(0), Some(1), Some(204), Some(65535) }

BootBlocks ==
    [ defects : DefectLists, hwparams : HwParamsSet, disc_record : DiscRecords,
      riscix_cylinder : Cylinders ]

Idle == "idle"

MainIdle ==
    /\ image = None /\ args = None /\ pc = Idle /\ offset = 0
    /\ partitions = <<>> /\ plan = None /\ status = None /\ writes = <<>>
    /\ rescan = None

PTIdle == ptIn = None /\ ptBytes = None /\ ptOut = None /\ ptPc = Idle

BBIdle == bbIn = None /\ bbBytes = None /\ bbOut = None /\ bbPc = Idle

InitBB ==
    /\ bbIn \in BootBlocks
    /\ bbBytes = None /\ bbOut = None /\ bbPc = "start"
    /\ PTIdle /\ MainIdle

BBSerialise ==
    /\ bbPc = "start"
    /\ bbBytes' = BootBlock_serialise(bbIn)
    /\ bbPc' = "serialised"
    /\ UNCHANGED <<bbIn, bbOut, ptIn, ptBytes, ptOut, ptPc,
                   image, args, pc, offset, partitions, plan, status, writes, rescan>>

BBParse ==
    /\ bbPc = "serialised"
    /\ bbBytes.exc = "none"
    /\ bbOut' = BootBlock_from_bytes(bbBytes.val)
    /\ bbPc' = "parsed"
    /\ UNCHANGED <<bbIn, bbBytes, ptIn, ptBytes, ptOut, ptPc,
                   image, args, pc, offset, partitions, plan, status, writes, rescan>>

NextBB == BBSerialise \/ BBParse

SpecBB == InitBB /\ [][NextBB]_vars

\* C1: every boot block that serialise turns into a 512-byte sector is parsed
\* back by from_bytes, without error, into an equal boot block.
C1_RoundTrip ==
    bbPc = "parsed" =>
        /\ Len(bbBytes.val) = 512
        /\ bbOut.exc = "none"
        /\ bbOut.val = bbIn

----------------------------------------------------------------------------
(* Partition table round trip: serialise, then from_bytes.                  *)

\* longest table drawn entry by entry (the 16- and 17-entry tables are added)
MaxTableLen == 2

\* entries: ordinary ones, a 16-character and an empty name, a zero count, a
\* zero start, a 17-character name, a name with NULs around it, a name that
\* is not ASCII
TableEntries ==
    { RiscixPartitionOf(NameRoot, 206, 260),
      RiscixPartitionOf(NameSwap, 466, 80),
      RiscixPartitionOf([i \in 1..16 |-> 96 + i], 2, 2),
      RiscixPartitionOf(<<>>, 70000, 16777216),
      RiscixPartitionOf(NameSwap, 466, 0),
      RiscixPartitionOf(NameUsr, 0, 4),
      RiscixPartitionOf([i \in 1..17 |-> 64 + i], 546, 2),
      RiscixPartitionOf(<<0, 97, 0>>, 6, 1),
      RiscixPartitionOf(<<233>>, 8, 2) }

Tables ==
    SeqsUpTo(TableEntries, MaxTableLen)
    \cup { [i \in 1..n |-> RiscixPartitionOf(NameUsr, 2 * i, 2)] : n \in {15, 16, 17} }
    \* the table main plans for the sizes 0 (swap), 100 (root) and usr=10
    \cup { << RiscixPartitionOf(NameRoot, 206, 406), RiscixPartitionOf(NameSwap, 612, 0),
              RiscixPartitionOf(NameUsr, 612, 40) >> }

InitPT ==
    /\ ptIn \in Tables
    /\ ptBytes = None /\ ptOut = None /\ ptPc = "start"
    /\ BBIdle /\ MainIdle

PTSerialise ==
    /\ ptPc = "start"
    /\ ptBytes' = RiscixPartitionTable_serialise(ptIn)
    /\ ptPc' = "serialised"
    /\ UNCHANGED <<ptIn, ptOut, bbIn, bbBytes, bbOut, bbPc,
                   image, args, pc, offset, partitions, plan, status, writes, rescan>>

PTParse ==
    /\ ptPc = "serialised"
    /\ ptBytes.exc = "none"
    /\ ptOut' = RiscixPartitionTable_from_bytes(ptBytes.val)
    /\ ptPc' = "parsed"
    /\ UNCHANGED <<ptIn, ptBytes, bbIn, bbBytes, bbOut, bbPc,
                   image, args, pc, offset, partitions, plan, status, writes, rescan>>

NextPT == PTSerialise \/ PTParse

SpecPT == InitPT /\ [][NextPT]_vars

\* C2: every table of 0 to 16 entries is parsed back from its serialisation
\* into an equal table: as many entries, in the same order, each with the same
\* name, start cylinder and cylinder count.
C2_RoundTrip ==
    (ptPc = "parsed" /\ Len(ptIn) <= 16) =>
        (ptOut.exc = "none" /\ ptOut.val = ptIn)

----------------------------------------------------------------------------
(* The program: main on an image and a command line.                        *)

\* find_partitions is followed for at most this many partitions
MaxParts == 3

StdName == <<73, 68, 69, 68, 105, 115, 99, 52, 0, 0>>

\* a boot block of the usual geometry (512-byte sectors, 63 per track, 16
\* heads: cylinders of 516096 bytes) as !IDEMgr leaves it: no defects
BootBlockOf(discrec, cyl) ==
    [ defects |-> <<>>, hwparams |-> [params |-> Zeros(12)],
      disc_record |-> discrec, riscix_cylinder |-> cyl ]

SectorOf(discrec, cyl) == BootBlock_serialise(BootBlockOf(discrec, cyl)).val

\* the sector with byte number i (from 0) set to b and the checksum byte redone
Patched(sector, i, b) ==
    LET t == [sector EXCEPT ![i + 1] = b]
    IN  [t EXCEPT ![512] = sum8(SubSeq(t, 1, 511))]

P1Sector == SectorOf(DiscRecordOf(9, 63, 16, 50 * MiB, StdName), None)

\* 108 defects and an end marker at 0x1b0: 12 bytes are left before 0x1c0
LateMarkerSector ==
    LET defects == [i \in 1..108 |-> <<1, 0>>]
        body == PackWords(Append(defects, <<defect_checksum(defects), 8192>>))
                \o SubSeq(P1Sector, 437, 511)
    IN  Append(body, sum8(body))

\* sectors that from_bytes does not accept, one for each way it can fail
CorruptSectors ==
    { [P1Sector EXCEPT ![512] = (P1Sector[512] % 255) + 1],  \* wrong sector checksum
      [P1Sector EXCEPT ![451] = 17],                         \* a changed heads byte, checksum not redone
      Patched(P1Sector, 0, 7),                               \* end marker with a wrong defect checksum
      Patched(P1Sector, 3, 0),                               \* no end marker at all
      Patched(Patched(Patched(P1Sector, 3, 0), 448, 0), 451, 32), \* first end marker at 0x1c0
      LateMarkerSector,                                      \* end marker at 0x1b0
      Patched(P1Sector, 432, 66) }                           \* 'Bndy' for 'Andy'

Region(off, data) == [off |-> off, data |-> data]
Img(size, regions) == [size |-> size, regions |-> regions]

ExistingTable ==
    RiscixPartitionTable_serialise(
        << RiscixPartitionOf(NameRoot, 206, 400), RiscixPartitionOf(NameSwap, 606, 80) >>).val

Images ==
    \* one partition of 50 MB in images of several sizes, nothing after it
    { Img(sz * MiB, << Region(3072, P1Sector) >>) : sz \in {120, 200, 600} }
    \* no acceptable boot block at all
    \cup { Img(200 * MiB, << Region(3072, c) >>) : c \in CorruptSectors }
    \* a second boot block after the first partition: acceptable, or not
    \cup { Img(200 * MiB, << Region(3072, P1Sector), Region(50 * MiB + 3072, c) >>) :
             c \in CorruptSectors
                   \cup { SectorOf(DiscRecordOf(9, 63, 16, 150 * MiB, StdName), None) } }
    \* a pointer that is present: 0, 1 (cylinder 0), 204 (cylinder 102) with and
    \* without a table where it points
    \cup { Img(200 * MiB, << Region(3072, SectorOf(DiscRecordOf(9, 63, 16, 50 * MiB, StdName), Some(0))) >>),
           Img(200 * MiB, << Region(3072, SectorOf(DiscRecordOf(9, 63, 16, 50 * MiB, StdName), Some(0))),
                             Region(0, ExistingTable) >>),
           Img(200 * MiB, << Region(3072, SectorOf(DiscRecordOf(9, 63, 16, 50 * MiB, StdName), Some(1))),
                             Region(0, ExistingTable) >>),
           Img(200 * MiB, << Region(3072, SectorOf(DiscRecordOf(9, 63, 16, 50 * MiB, StdName), Some(204))),
                             Region(102 * 516096, ExistingTable) >>),
           Img(200 * MiB, << Region(3072, SectorOf(DiscRecordOf(9, 63, 16, 50 * MiB, StdName), Some(204))) >>) }
    \* an existing table with little room after it (cylinder 102 of 243), and
    \* with next to none (cylinder 240 of 243)
    \cup { Img(120 * MiB, << Region(3072, SectorOf(DiscRecordOf(9, 63, 16, 50 * MiB, StdName), Some(2 * c))),
                             Region(c * 516096, ExistingTable) >>) : c \in {102, 240} }
    \* a declared size beyond the image, a declared size of zero, a geometry
    \* with no sectors per track, a name that is not ASCII, a file too short to
    \* hold a boot block
    \cup { Img(200 * MiB, << Region(3072, SectorOf(DiscRecordOf(9, 63, 16, 300 * MiB, StdName), None)) >>),
           Img(200 * MiB, << Region(3072, SectorOf(DiscRecordOf(9, 63, 16, 0, StdName), None)) >>),
           Img(200 * MiB, << Region(3072, SectorOf(DiscRecordOf(9, 0, 16, 50 * MiB, StdName), None)) >>),
           Img(200 * MiB, << Region(3072, Patched(P1Sector, 471, 200)) >>),
           Img(3500, << Region(3072, SubSeq(P1Sector, 1, 428)) >>) }

ExtraOf(name, size) == [name |-> name, size |-> size]

\* The command lines (lines 381-393).  The sizes are positional and in the
\* order swap, root, extras: an extra partition can only follow a root size.
ArgsSet ==
    { a \in [ swap_size : {0, 20, -20},
              root_size : { None, Some(63), Some(100), Some(500) },
              extra_partitions : { <<>>, << ExtraOf(NameUsr, 1) >>,
                                   << ExtraOf(NameUsr, 10), ExtraOf(<<118, 97, 114>>, 5) >> },
              yes : BOOLEAN ] :
        a.root_size = None => a.extra_partitions = <<>> }

Init ==
    /\ image \in Images
    /\ args \in ArgsSet
    /\ pc = "find_partitions"
    /\ offset = 0
    /\ partitions = <<>>
    /\ plan = None
    /\ status = None
    /\ writes = <<>>
    /\ rescan = [pc |-> "idle", offset |-> 0, partitions |-> <<>>, why |-> ""]
    /\ BBIdle /\ PTIdle

rtVars == <<bbIn, bbBytes, bbOut, bbPc, ptIn, ptBytes, ptOut, ptPc>>

\* One pass of the while loop of find_partitions, or its return to main.
FindPartitions ==
    /\ pc = "find_partitions"
    /\ Len(partitions) < MaxParts
    /\ \E r \in { find_partitions_body(image, offset) } :
           CASE r.kind = "append" ->
                  /\ partitions' = Append(partitions, r.partition)
                  /\ offset' = r.next
                  /\ UNCHANGED <<pc, status>>
             [] r.kind = "break" ->
                  /\ pc' = "plan"
                  /\ UNCHANGED <<partitions, offset, status>>
             [] r.kind = "raise" ->
                  /\ pc' = "exit"
                  /\ status' = Uncaught(r.exc, r.why)
                  /\ UNCHANGED <<partitions, offset>>
    /\ UNCHANGED <<image, args, plan, writes>>
    /\ UNCHANGED <<rtVars, rescan>>

\* Lines 400-528: report, reuse decision, layout, validation.
Plan ==
    /\ pc = "plan"
    /\ \E r \in { main_plan(partitions, image.size, args) } :
           /\ plan' = r.plan
           /\ status' = r.status
           /\ pc' = IF r.status = None THEN "confirm" ELSE "exit"
    /\ UNCHANGED <<image, args, offset, partitions, writes>>
    /\ UNCHANGED <<rtVars, rescan>>

\* Lines 530-540: the prompt (skipped with --yes) and the two serialisations.
Confirm ==
    /\ pc = "confirm"
    /\ \E response \in {"y", "n"} :
         /\ args.yes => response = "y"
         /\ IF response = "n"
            THEN /\ pc' = "exit"
                 /\ status' = Exit(0, "declined")
                 /\ UNCHANGED plan
            ELSE \E bb \in { BootBlock_serialise(plan.bootblock) },
                    pt \in { RiscixPartitionTable_serialise(plan.new_riscix_pt) } :
                     IF bb.exc # "none"
                     THEN /\ pc' = "exit"
                          /\ status' = Uncaught(bb.exc, "BootBlock.serialise")
                          /\ UNCHANGED plan
                     ELSE IF pt.exc # "none"
                     THEN /\ pc' = "exit"
                          /\ status' = Uncaught(pt.exc, "RiscixPartitionTable.serialise")
                          /\ UNCHANGED plan
                     ELSE /\ pc' = commit_order[1]
                          /\ plan' = [plan EXCEPT !.new_bootblock_data = bb.val,
                                                  !.new_riscix_pt_data = pt.val]
                          /\ UNCHANGED status
    /\ UNCHANGED <<image, args, offset, partitions, writes>>
    /\ UNCHANGED <<rtVars, rescan>>

Write(what, pos, data) ==
    /\ image' = image_write(image, pos, data)
    /\ writes' = Append(writes, [what |-> what, pos |-> pos, data |-> data])

\* Lines 543-545: the updated boot block of the first partition.
WriteBootBlock ==
    /\ pc = "write_bootblock"
    /\ Write("bootblock", plan.offset + 3072, plan.new_bootblock_data)
    /\ pc' = commit_next(pc)
    /\ status' = IF pc' = "done" THEN Exit(0, "written") ELSE status
    /\ UNCHANGED <<args, offset, partitions, plan>>
    /\ UNCHANGED <<rtVars, rescan>>

\* Lines 547-550: zeros over the boot block after the first partition, when a
\* new table is made.
Invalidate ==
    /\ pc = "invalidate"
    /\ IF plan.new_riscix
       THEN Write("zero", plan.offset + plan.discrec_size + 3072, Zeros(512))
       ELSE UNCHANGED <<image, writes>>
    /\ pc' = commit_next(pc)
    /\ status' = IF pc' = "done" THEN Exit(0, "written") ELSE status
    /\ UNCHANGED <<args, offset, partitions, plan>>
    /\ UNCHANGED <<rtVars, rescan>>

\* Lines 552-554: the partition table.
WriteTable ==
    /\ pc = "write_table"
    /\ Write("table", plan.offset + plan.riscix_start_cyl * plan.cyl_size,
             plan.new_riscix_pt_data)
    /\ pc' = commit_next(pc)
    /\ status' = IF pc' = "done" THEN Exit(0, "written") ELSE status
    /\ UNCHANGED <<args, offset, partitions, plan>>
    /\ UNCHANGED <<rtVars, rescan>>

\* find_partitions on the image once the commit is complete: one pass of its
\* loop from its own offset 0, or its return.
Rescan ==
    /\ pc = "done"
    /\ rescan.pc \in {"idle", "scanning"}
    /\ Len(rescan.partitions) < MaxParts
    /\ \E r \in { find_partitions_body(image, rescan.offset) } :
           rescan' =
               CASE r.kind = "append" ->
                      [pc |-> "scanning", offset |-> r.next,
                       partitions |-> Append(rescan.partitions, r.partition),
                       why |-> ""]
                 [] r.kind = "break" ->
                      [rescan EXCEPT !.pc = "returned", !.why = r.why]
                 [] r.kind = "raise" ->
                      [rescan EXCEPT !.pc = "raised", !.why = r.exc]
    /\ UNCHANGED <<image, args, pc, offset, partitions, plan, status, writes>>
    /\ UNCHANGED rtVars

Next ==
    \/ FindPartitions \/ Plan \/ Confirm
    \/ WriteBootBlock \/ Invalidate \/ WriteTable
    \/ Rescan

Spec == Init /\ [][Next]_vars

----------------------------------------------------------------------------
(* Properties of find_partitions.                                           *)

\* the 512 bytes find_partitions reads at the candidate offset
candidate == image_read(image, offset + 3072, 512)

\* C3: whenever the candidate boot-block sector fails to parse, whatever the
\* failure, the scan ends normally: it goes on to main with the partitions
\* found so far, and no error leaves find_partitions.
C3_ParseFailureEndsScan ==
    [][ ( /\ pc = "find_partitions"
          /\ Len(candidate) = 512
          /\ BootBlock_from_bytes(candidate).exc # "none" )
        => ( pc' = "plan" /\ partitions' = partitions /\ status' = None ) ]_vars

\* C4: every partition find_partitions has appended lies within the image:
\* its offset plus the size its geometry record declares is at most the size
\* of the image.
C4_PartitionsWithinImage ==
    image # None =>
        \A i \in 1..Len(partitions) :
            partitions[i].offset + partitions[i].bootblock.disc_record.size <= image.size

\* C5: every pass of the loop that appends a partition moves the candidate
\* offset forward by a strictly positive amount.
C5_AppendAdvances ==
    [][ Len(partitions') > Len(partitions) => offset' > offset ]_vars

----------------------------------------------------------------------------
(* Properties of the plan and of the commit.                                *)

RECURSIVE entries_end(_, _)
\* the cylinder (relative to the partition) at which the entries of a table end
entries_end(entries, sofar) ==
    IF entries = <<>> THEN sofar
    ELSE entries_end(Tail(entries),
                     Max(sofar, (Head(entries).start_cylinder
                                 + Head(entries).num_cylinders) \div 2))

\* the three conditions on a plan p for an image of image_size bytes, read off
\* the table that p holds: the extent (table cylinder and every entry) ends
\* within the image, the root is at least 64 MB, root and first partition
\* together are at most 512 MB
PlanValid(p, image_size) ==
    /\ p.offset + entries_end(p.new_riscix_pt, p.riscix_start_cyl + 1) * p.cyl_size
           <= image_size
    /\ (p.new_riscix_pt[1].num_cylinders \div 2) * p.cyl_size >= 64 * MiB
    /\ (p.new_riscix_pt[1].num_cylinders \div 2) * p.cyl_size + p.discrec_size
           <= 512 * MiB

\* C6: a byte of the image changes only in a step of a run whose plan meets
\* the three conditions, and a run whose plan fails one of the three
\* validations has ended with exit status 1 and has made no write.
C6_OnlyValidPlanWrites ==
    /\ [][ image' # image
            => (plan # None /\ status = None /\ PlanValid(plan, image.size)) ]_vars
    /\ []( (plan # None /\ (plan_check(plan) # "ok" \/ ~PlanValid(plan, image.size)))
             => writes = <<>> )
    /\ []( (plan # None /\ plan_check(plan) # "ok")
             => (pc = "exit" /\ status # None /\ status.code = 1) )

\* a plan that meets the three conditions has been written to the image
C6_Witness ==
    /\ pc = "done" /\ Len(writes) = 3
    /\ PlanValid(plan, image.size)
    /\ image.regions[Len(image.regions)].data = plan.new_riscix_pt_data

\* C7: in the planned table the extras follow Root and Swap in the order of
\* the request, each of ceiling(bytes / cylinder size) cylinders, the first
\* where Swap ends and each later one where the one before it ends.
C7_ExtrasCeiling ==
    plan # None =>
        /\ Len(plan.new_riscix_pt) = 2 + Len(args.extra_partitions)
        /\ \A i \in 1..Len(args.extra_partitions) :
             LET e    == plan.new_riscix_pt[2 + i]
                 prev == plan.new_riscix_pt[1 + i]
             IN  /\ e.name = args.extra_partitions[i].name
                 /\ e.num_cylinders
                      = 2 * CeilDiv(args.extra_partitions[i].size * MiB, plan.cyl_size)
                 /\ e.start_cylinder = prev.start_cylinder + prev.num_cylinders

\* C8: with no root size asked for, the cylinder of the table, the root, the
\* swap and the extras together are at most the cylinders of the image from
\* the table on, root and first partition together are at most 512 MB, and
\* the only refusal of the plan is that of a root below 64 MB.
C8_DefaultRootFits ==
    (plan # None /\ args.root_size = None) =>
        /\ 1 + plan.riscix_root_cyls + plan.riscix_swap_cyls + plan.extra_cyls
             <= plan.riscix_total_cyls
        /\ plan.riscix_root_cyls * plan.cyl_size + plan.discrec_size <= 512 * MiB
        /\ plan.unused >= 0
        /\ (status # None /\ status.exc = "none" /\ status.code = 1)
             => status.reason = "RootTooSmall"

\* a default root that takes every cylinder left after the table and a swap
\* has been written
C8_Witness ==
    /\ plan # None /\ args.root_size = None /\ pc = "done"
    /\ plan.riscix_swap_cyls > 0
    /\ 1 + plan.riscix_root_cyls + plan.riscix_swap_cyls + plan.extra_cyls
         = plan.riscix_total_cyls

\* C9: when the boot block of the first partition has a pointer, whatever its
\* value, a table is linked to the partition, the plan reuses it (the boot
\* block written back has the pointer that was read, the table goes to the
\* cylinder the pointer records) and no boot block is overwritten with zeros.
C9_PresentPointerReused ==
    (Len(partitions) >= 1 /\ partitions[1].bootblock.riscix_cylinder # None) =>
        /\ partitions[1].riscix_pt # None
        /\ plan # None =>
             /\ ~plan.new_riscix
             /\ plan.bootblock.riscix_cylinder = partitions[1].bootblock.riscix_cylinder
             /\ plan.riscix_start_cyl = partitions[1].bootblock.riscix_cylinder[1] \div 2
        /\ \A i \in 1..Len(writes) : writes[i].what # "zero"

\* the writes of a commit, in order, for plan p
commit_writes(p) ==
    << [what |-> "bootblock", pos |-> p.offset + 3072, data |-> p.new_bootblock_data] >>
    \o (IF p.new_riscix
        THEN << [what |-> "zero", pos |-> p.offset + p.discrec_size + 3072,
                 data |-> Zeros(512)] >>
        ELSE <<>>)
    \o << [what |-> "table", pos |-> p.offset + p.riscix_start_cyl * p.cyl_size,
           data |-> p.new_riscix_pt_data] >>

\* C10: the writes made so far are the first ones of: the boot block of 512
\* bytes, then (for a new table only) 512 zeros over the boot block after the
\* first partition, then the table of 1024 bytes; a finished commit has made
\* them all.
C10_CommitOrder ==
    writes # <<>> =>
        /\ Len(writes) <= Len(commit_writes(plan))
        /\ writes = SubSeq(commit_writes(plan), 1, Len(writes))
        /\ Len(writes[1].data) = 512
        /\ Len(commit_writes(plan)[Len(commit_writes(plan))].data) = 1024
        /\ pc = "done" => writes = commit_writes(plan)

\* the boot block on the image points to the table's cylinder, and the table
\* is not yet there
C10_Witness ==
    /\ pc \in {"invalidate", "write_table"}
    /\ writes # <<>> /\ writes[Len(writes)].what # "table"
    /\ BootBlock_from_bytes(image_read(image, plan.offset + 3072, 512)).val.riscix_cylinder
         = Some(2 * plan.riscix_start_cyl)
    /\ image_read(image, plan.offset + plan.riscix_start_cyl * plan.cyl_size, 1024)
         # plan.new_riscix_pt_data

----------------------------------------------------------------------------
(* Properties of the image after the commit.                                *)

\* C11: after a commit that made a new table, find_partitions on the image
\* returns one partition: the first one, at its offset and with its geometry
\* record, its pointer twice the planned cylinder of the table, its linked
\* table the planned table (Root, Swap and every extra, with their starts
\* and counts); the zeroed sector after it is rejected and ends the scan.
C11_RescanFindsPlan ==
    (pc = "done" /\ plan.new_riscix /\ rescan.pc \notin {"idle", "scanning"}) =>
        /\ rescan.pc = "returned"
        /\ rescan.why = "Invalid defect list"
        /\ Len(rescan.partitions) = 1
        /\ rescan.partitions[1].offset = partitions[1].offset
        /\ rescan.partitions[1].bootblock.disc_record
             = partitions[1].bootblock.disc_record
        /\ rescan.partitions[1].bootblock.riscix_cylinder
             = Some(2 * plan.riscix_start_cyl)
        /\ rescan.partitions[1].riscix_pt = Some(plan.new_riscix_pt)

====
